---------------------------- MODULE Spec2Model ----------------------------
(***************************************************************************)
(* A model of the Jira ticket front-end: the plain-text to ADF converter   *)
(* and the Jira client of jira_client.py, and the Flask handlers of app.py.*)
(*                                                                         *)
(* Python values are tagged records: None is [t |-> "none"], a str is      *)
(* [t |-> "str", v |-> ...], a dict built by the program is                *)
(* [t |-> "dict", v |-> <a function of its keys>], a list is               *)
(* [t |-> "list", v |-> <<...>>] and a JSON object decoded from a response *)
(* is [t |-> "dict", items |-> <<key, value pairs in document order>>].    *)
(* Text the program takes apart (descriptions, form values, dates) is a    *)
(* sequence of one-character strings; text it only compares or             *)
(* concatenates (keys, ids, messages, URLs) is a TLA+ string.              *)
(***************************************************************************)
EXTENDS Integers, Sequences, FiniteSets, TLC

VARIABLES
    arg, ret, op,           \* converter calls: argument, return value, function called
    gwSettings,             \* JiraClient.settings
    gwCall,                 \* the last JiraClient method called, with its arguments
    gwSent,                 \* the request it handed to the session
    gwReply,                \* what the session gave back
    gwResult,               \* what the method returned or raised
    config,                 \* config/jira_config.yml as it is on disk
    jiraClient,             \* app._jira_client
    loads,                  \* calls of load_settings so far
    tkForm,                 \* create_ticket: request.form
    tkSent,                 \* create_ticket: the requests sent to Jira, in order
    tkReply,                \* create_ticket: what the session gave back
    tkOutcome,              \* create_ticket: the flash message or the unhandled exception
    pc,                     \* get_jira_client: where each request handler is
    made,                   \* get_jira_client: what JiraClient() gave a handler, not yet stored
    result,                 \* get_jira_client: what a handler's call returned or raised
    begun,                  \* calls of get_jira_client begun so far
    first,                  \* what the first call to end returned or raised
    later                   \* whether a handler's call began after the first call had ended

adfVars == <<arg, ret, op>>
gwVars == <<gwSettings, gwCall, gwSent, gwReply, gwResult>>
appVars == <<config, jiraClient, loads>>
tkVars == <<tkForm, tkSent, tkReply, tkOutcome>>
hVars == <<pc, made, result, begun, first, later>>
vars == <<arg, ret, op, gwSettings, gwCall, gwSent, gwReply, gwResult,
          config, jiraClient, loads, tkForm, tkSent, tkReply, tkOutcome,
          pc, made, result, begun, first, later>>

(***************************************************************************)
(* Bounds of the model.                                                    *)
(***************************************************************************)
MaxLen == 4                 \* longest plain text given to the converter
NumHandlers == 2            \* request handlers running at once
MaxCalls == 3               \* calls of get_jira_client in one run

LF == "\n"
Alphabet == {"a", "b", LF}

None == [t |-> "none"]
Str(s) == [t |-> "str", v |-> s]
Dict(d) == [t |-> "dict", v |-> d]

(* The parts of the state a specification does not use stay as they are   *)
(* before any call.                                                        *)
AdfIdle ==
    /\ arg = None
    /\ ret = None
    /\ op = "none"

NoCall == [op |-> "none"]

GwIdle ==
    /\ gwSettings = None
    /\ gwCall = NoCall
    /\ gwSent = None
    /\ gwReply = None
    /\ gwResult = None

Unset == [t |-> "unset"]

AppIdle ==
    /\ config = None
    /\ jiraClient = Unset
    /\ loads = 0

TkIdle ==
    /\ tkForm = None
    /\ tkSent = <<>>
    /\ tkReply = None
    /\ tkOutcome = None

Handlers == 1..NumHandlers

HandlersIdle ==
    /\ pc = [h \in Handlers |-> "idle"]
    /\ made = [h \in Handlers |-> None]
    /\ result = [h \in Handlers |-> None]
    /\ begun = 0
    /\ first = None
    /\ later = [h \in Handlers |-> FALSE]

Texts == UNION {[1..n -> Alphabet] : n \in 0..MaxLen}

(***************************************************************************)
(* str.split(sep) of Python for a non-empty separator: cut at the leftmost *)
(* occurrence, continue after it; no occurrence leaves the rest whole.     *)
(***************************************************************************)
OccursAt(s, sep, i) ==
    /\ i >= 1
    /\ i + Len(sep) - 1 <= Len(s)
    /\ \A k \in 1..Len(sep) : s[i + k - 1] = sep[k]

RECURSIVE PySplit(_, _)
PySplit(s, sep) ==
    LET hits == {i \in 1..Len(s) : OccursAt(s, sep, i)}
    IN  IF hits = {} THEN <<s>>
        ELSE LET i == CHOOSE j \in hits : \A k \in hits : j <= k
             IN  <<SubSeq(s, 1, i - 1)>> \o PySplit(SubSeq(s, i + Len(sep), Len(s)), sep)

TextNode(line) == [type |-> "text", text |-> line]
HardBreak == [type |-> "hardBreak"]

(* LineLoop with the test of line 74 off by one: a hardBreak follows the   *)
(* last line too.                                                          *)
RECURSIVE LineLoop_BreakAfterLast(_, _, _)
LineLoop_BreakAfterLast(lines, index, content) ==
    IF index > Len(lines) THEN content
    ELSE LET withText == IF lines[index] # <<>>
                         THEN Append(content, TextNode(lines[index]))
                         ELSE content
         IN  LineLoop_BreakAfterLast(lines, index + 1, Append(withText, HardBreak))

(* The inner loop of _text_to_adf: content after lines index..len(lines).  *)
RECURSIVE LineLoop(_, _, _)
LineLoop(lines, index, content) ==
    IF index > Len(lines) THEN content
    ELSE LET withText == IF lines[index] # <<>>
                         THEN Append(content, TextNode(lines[index]))
                         ELSE content
             withBreak == IF index < Len(lines)
                          THEN Append(withText, HardBreak)
                          ELSE withText
         IN  LineLoop(lines, index + 1, withBreak)

(* BlockParagraph with the test of line 77 dropped: the content key is     *)
(* always written.                                                         *)
BlockParagraph_AlwaysContent(block) ==
    LET lines == IF block # <<>> THEN PySplit(block, <<LF>>) ELSE << <<>> >>
    IN  [type |-> "paragraph", content |-> LineLoop(lines, 1, <<>>)]

(* One pass of the outer loop of _text_to_adf: the paragraph of a block.   *)
BlockParagraph(block) ==
    LET lines == IF block # <<>> THEN PySplit(block, <<LF>>) ELSE << <<>> >>
        content == LineLoop(lines, 1, <<>>)
    IN  IF content # <<>>
        THEN [type |-> "paragraph", content |-> content]
        ELSE [type |-> "paragraph"]

_text_to_adf(text) ==
    LET blocks == IF text # <<>> THEN PySplit(text, <<LF, LF>>) ELSE << <<>> >>
    IN  Dict([type |-> "doc", version |-> 1,
              content |-> [i \in 1..Len(blocks) |-> BlockParagraph(blocks[i])]])

(* _ensure_adf without the isinstance test of line 89: a dict is converted *)
(* like the empty text.                                                    *)
_ensure_adf_Reconvert(description) ==
    IF description = None \/ description.t = "dict" THEN _text_to_adf(<<>>)
    ELSE _text_to_adf(description.v)

_ensure_adf(description) ==
    IF description = None THEN _text_to_adf(<<>>)
    ELSE IF description.t = "dict" THEN description
    ELSE _text_to_adf(description.v)

(***************************************************************************)
(* JiraClient: the requests it builds and what it makes of the replies.    *)
(***************************************************************************)
List(l) == [t |-> "list", v |-> l]
JObject(items) == [t |-> "dict", items |-> items]

(* Python truthiness of the values the client tests.                       *)
Truthy(x) ==
    CASE x.t = "none" -> FALSE
      [] x.t = "str" -> Len(x.v) > 0
      [] x.t = "list" -> Len(x.v) > 0
      [] x.t = "dict" -> IF "items" \in DOMAIN x THEN Len(x.items) > 0 ELSE DOMAIN x.v # {}
      [] OTHER -> TRUE

RequestTimeout == 30

JsonError == [t |-> "JSONDecodeError"]

(* Response.json() on the bodies the remote sends in this model.           *)
JsonLoads(text) ==
    CASE text = "{\"key\":\"PRJ-1\"}" ->
            JObject(<< <<"key", Str("PRJ-1")>> >>)
      [] text = "{\"errorMessages\":[\"summary is required\"]}" ->
            JObject(<< <<"errorMessages", List(<<Str("summary is required")>>)>> >>)
      [] text = "{\"errors\":{\"summary\":\"is required\"}}" ->
            JObject(<< <<"errors", JObject(<< <<"summary", Str("is required")>> >>)>> >>)
      [] text = "{\"errorMessages\":[\"first\",\"second\"],\"errors\":{\"summary\":\"is required\"}}" ->
            JObject(<< <<"errorMessages", List(<<Str("first"), Str("second")>>)>>,
                       <<"errors", JObject(<< <<"summary", Str("is required")>> >>)>> >>)
      [] text = "{\"errorMessages\":[],\"errors\":{\"summary\":\"is required\",\"duedate\":\"is invalid\"}}" ->
            JObject(<< <<"errorMessages", List(<<>>)>>,
                       <<"errors", JObject(<< <<"summary", Str("is required")>>,
                                              <<"duedate", Str("is invalid")>> >>)>> >>)
      [] text = "{\"errors\":[\"bad request\"]}" ->
            JObject(<< <<"errors", List(<<Str("bad request")>>)>> >>)
      [] text = "{\"errorMessages\":\"oops\"}" ->
            JObject(<< <<"errorMessages", Str("oops")>> >>)
      [] text = "{\"errorMessages\":[400]}" ->
            JObject(<< <<"errorMessages", List(<<[t |-> "int", v |-> 400]>>)>> >>)
      [] text = "{\"errorMessages\":[],\"errors\":{}}" ->
            JObject(<< <<"errorMessages", List(<<>>)>>, <<"errors", JObject(<<>>)>> >>)
      [] text = "{}" -> JObject(<<>>)
      [] text = "[\"not an object\"]" -> List(<<Str("not an object")>>)
      [] OTHER -> JsonError

Reply(status, text) == [t |-> "response", status |-> status, text |-> text]
TimedOut == [t |-> "Timeout"]

(* Response.raise_for_status(): an HTTPError for 4xx and 5xx.              *)
IsHttpError(reply) == reply.status >= 400 /\ reply.status < 600

(* How a method ended, with the number of response.json() calls it made.   *)
Return(value, json_calls) == [kind |-> "return", value |-> value, json_calls |-> json_calls]
Raise(exc, json_calls) == [kind |-> "raise", exc |-> exc, json_calls |-> json_calls]
RaiseHttpError(reply) ==
    [kind |-> "raise", exc |-> "HTTPError", response |-> reply, json_calls |-> 0]

(* return response.json()                                                  *)
ParsedBody(reply) ==
    IF JsonLoads(reply.text) = JsonError
    THEN Raise("JSONDecodeError", 1)
    ELSE Return(JsonLoads(reply.text), 1)

_url(settings, path) == settings.base_url \o path

SetItem(dict, key, value) == (key :> value) @@ dict

(* create_issue with the start date written into the description when no   *)
(* custom field is configured.                                             *)
CreateIssueFields_PrependStart(settings, summary, description, start_date, due_date) ==
    LET fields == [project |-> Dict([key |-> settings.project_key]),
                   summary |-> summary,
                   issuetype |-> Dict([name |-> settings.issue_type])]
        withDue == IF Truthy(due_date) THEN SetItem(fields, "duedate", due_date) ELSE fields
        custom == Truthy(start_date) /\ Truthy(settings.start_date_field_id)
        withStart == IF custom
                     THEN SetItem(withDue, settings.start_date_field_id.v, start_date)
                     ELSE withDue
        text == IF Truthy(start_date) /\ ~custom /\ description.t = "str"
                THEN Str(<<"S", "t", "a", "r", "t", " ", "D", "a", "t", "e", ":", " ">>
                         \o start_date.v \o <<LF>> \o description.v)
                ELSE description
    IN  SetItem(withStart, "description", _ensure_adf(text))

(* create_issue with the due date written whether or not it is empty.      *)
CreateIssueFields_AlwaysDue(settings, summary, description, start_date, due_date) ==
    LET fields == [project |-> Dict([key |-> settings.project_key]),
                   summary |-> summary,
                   issuetype |-> Dict([name |-> settings.issue_type]),
                   duedate |-> due_date]
        withStart == IF Truthy(start_date) /\ Truthy(settings.start_date_field_id)
                     THEN SetItem(fields, settings.start_date_field_id.v, start_date)
                     ELSE fields
    IN  SetItem(withStart, "description", _ensure_adf(description))

(* The fields object of create_issue.                                      *)
CreateIssueFields(settings, summary, description, start_date, due_date) ==
    LET fields == [project |-> Dict([key |-> settings.project_key]),
                   summary |-> summary,
                   issuetype |-> Dict([name |-> settings.issue_type])]
        withDue == IF Truthy(due_date) THEN SetItem(fields, "duedate", due_date) ELSE fields
        withStart == IF Truthy(start_date) /\ Truthy(settings.start_date_field_id)
                     THEN SetItem(withDue, settings.start_date_field_id.v, start_date)
                     ELSE withDue
    IN  SetItem(withStart, "description", _ensure_adf(description))

CreateIssueRequest(settings, summary, description, start_date, due_date) ==
    [method |-> "POST",
     url |-> _url(settings, "/rest/api/3/issue"),
     json |-> [fields |-> CreateIssueFields(settings, summary, description, start_date, due_date)],
     timeout |-> RequestTimeout]

(* What create_issue and get_issue make of the session's answer: the       *)
(* session's own exception, raise_for_status(), then response.json().      *)
JsonResult(reply) ==
    IF reply.t = "Timeout" THEN Raise("Timeout", 0)
    ELSE IF IsHttpError(reply) THEN RaiseHttpError(reply)
    ELSE ParsedBody(reply)

GetIssueRequest(settings, issue_key) ==
    [method |-> "GET",
     url |-> _url(settings, "/rest/api/3/issue/" \o issue_key),
     timeout |-> RequestTimeout]

UpdateIssueFields(fields) ==
    IF "description" \in DOMAIN fields
    THEN SetItem(fields, "description", _ensure_adf(fields["description"]))
    ELSE fields

UpdateIssueRequest(settings, issue_key, fields) ==
    [method |-> "PUT",
     url |-> _url(settings, "/rest/api/3/issue/" \o issue_key),
     json |-> [fields |-> UpdateIssueFields(fields)],
     timeout |-> RequestTimeout]

SuccessMarker == Dict([status |-> "success"])

(* update_issue with the test of response.text dropped: the body is always *)
(* parsed.                                                                 *)
UpdateResult_AlwaysParse(reply) == JsonResult(reply)

(* The last two lines of update_issue.                                     *)
UpdateResult(reply) ==
    IF reply.t = "Timeout" THEN Raise("Timeout", 0)
    ELSE IF IsHttpError(reply) THEN RaiseHttpError(reply)
    ELSE IF reply.text # "" THEN ParsedBody(reply)
    ELSE Return(SuccessMarker, 0)

StandardFields == {"project", "summary", "issuetype", "duedate", "description"}

GwSettingsSet ==
    {[base_url |-> "https://jira.example", email |-> "bot@example.com",
      api_token |-> "token", project_key |-> "PRJ", issue_type |-> "Task",
      start_date_field_id |-> id] :
        id \in {None, Str(""), Str("customfield_10015"), Str("duedate")}}

Summaries == {Str(<<"S">>), Str(<<>>)}
Descriptions ==
    {None, Str(<<>>), Str(<<"a", LF, "b">>), Str(<<"a", LF, LF, "b">>),
     _text_to_adf(<<"a">>), Dict([type |-> "doc", version |-> 1, content |-> <<>>])}
StartDates == {None, Str(<<>>), Str(<<"2", "0", "2", "4", "-", "0", "4", "-", "0", "1">>)}
DueDates == {None, Str(<<>>), Str(<<"2", "0", "2", "4", "-", "0", "5", "-", "0", "1">>)}
IssueKeys == {"PRJ-1"}
UpdateFields ==
    {[summary |-> Str(<<"S">>)],
     [description |-> Str(<<"a", LF, "b">>)],
     [description |-> _text_to_adf(<<"a">>), summary |-> Str(<<"S">>)],
     [description |-> None]}

Replies ==
    {Reply(200, "{\"key\":\"PRJ-1\"}"), Reply(201, "{\"key\":\"PRJ-1\"}"),
     Reply(204, ""), Reply(200, "{}"), Reply(200, " "),
     Reply(200, "<html>OK</html>"),
     Reply(400, "{\"errorMessages\":[\"summary is required\"]}"),
     Reply(404, ""), Reply(502, "<html>Bad Gateway</html>"),
     TimedOut}

InitGateway ==
    /\ gwSettings \in GwSettingsSet
    /\ gwCall = NoCall
    /\ gwSent = None
    /\ gwReply = None
    /\ gwResult = None
    /\ AdfIdle
    /\ AppIdle
    /\ TkIdle
    /\ HandlersIdle

create_issue ==
    /\ gwCall = NoCall
    /\ \E summary \in Summaries, description \in Descriptions,
          start_date \in StartDates, due_date \in DueDates, reply \in Replies :
           /\ gwCall' = [op |-> "create_issue", summary |-> summary, description |-> description,
                         start_date |-> start_date, due_date |-> due_date]
           /\ gwSent' = CreateIssueRequest(gwSettings, summary, description, start_date, due_date)
           /\ gwReply' = reply
           /\ gwResult' = JsonResult(reply)
           /\ UNCHANGED <<gwSettings, adfVars, appVars, tkVars, hVars>>

get_issue ==
    /\ gwCall = NoCall
    /\ \E issue_key \in IssueKeys, reply \in Replies :
           /\ gwCall' = [op |-> "get_issue", issue_key |-> issue_key]
           /\ gwSent' = GetIssueRequest(gwSettings, issue_key)
           /\ gwReply' = reply
           /\ gwResult' = JsonResult(reply)
           /\ UNCHANGED <<gwSettings, adfVars, appVars, tkVars, hVars>>

update_issue ==
    /\ gwCall = NoCall
    /\ \E issue_key \in IssueKeys, fields \in UpdateFields, reply \in Replies :
           /\ gwCall' = [op |-> "update_issue", issue_key |-> issue_key, fields |-> fields]
           /\ gwSent' = UpdateIssueRequest(gwSettings, issue_key, fields)
           /\ gwReply' = reply
           /\ gwResult' = UpdateResult(reply)
           /\ UNCHANGED <<gwSettings, adfVars, appVars, tkVars, hVars>>

(* The caller has the result; the client is ready for the next call.       *)
GwReturn ==
    /\ gwCall # NoCall
    /\ gwCall' = NoCall
    /\ gwSent' = None
    /\ gwReply' = None
    /\ gwResult' = None
    /\ UNCHANGED <<gwSettings, adfVars, appVars, tkVars, hVars>>

NextGateway == create_issue \/ get_issue \/ update_issue \/ GwReturn

SpecGateway == InitGateway /\ [][NextGateway]_vars

(***************************************************************************)
(* load_settings and the cached client of app.py.  The configuration file  *)
(* is absent or a well-formed YAML mapping; a value is None when its key   *)
(* is absent.  base_url is kept in pieces so that its trailing slashes can *)
(* be told from the rest.                                                  *)
(***************************************************************************)
RECURSIVE Join(_, _)
Join(parts, sep) ==
    IF parts = <<>> THEN ""
    ELSE IF Len(parts) = 1 THEN parts[1]
    ELSE parts[1] \o sep \o Join(Tail(parts), sep)

RECURSIVE RStripSlash(_)
RStripSlash(pieces) ==
    IF pieces # <<>> /\ pieces[Len(pieces)] = "/"
    THEN RStripSlash(SubSeq(pieces, 1, Len(pieces) - 1))
    ELSE pieces

Required == <<"base_url", "email", "api_token", "project_key", "issue_type">>

ConfigurationError(message) == [t |-> "error", exc |-> "JiraConfigurationError", message |-> message]

load_settings(file) ==
    IF file.t = "missing"
    THEN ConfigurationError("Jira configuration file not found. Expected at config/jira_config.yml")
    ELSE LET jira_config == file.jira
             missing == SelectSeq(Required, LAMBDA field : ~Truthy(jira_config[field]))
         IN  IF missing # <<>>
             THEN ConfigurationError("Missing Jira configuration values: " \o Join(missing, ", "))
             ELSE [t |-> "settings",
                   base_url |-> Join(RStripSlash(jira_config["base_url"].v), ""),
                   email |-> jira_config["email"].v,
                   api_token |-> jira_config["api_token"].v,
                   project_key |-> jira_config["project_key"].v,
                   issue_type |-> jira_config["issue_type"].v,
                   start_date_field_id |-> jira_config["start_date_field_id"]]

(* JiraClient() as get_jira_client sees it: the client, or the             *)
(* JiraConfigurationError that load_settings raised.  id tells the objects *)
(* of different calls apart.                                               *)
NewJiraClient(file, id) ==
    LET loaded == load_settings(file)
    IN  IF loaded.t = "error"
        THEN [t |-> "error", exc |-> loaded.exc, message |-> loaded.message, id |-> id]
        ELSE [t |-> "client", settings |-> loaded, id |-> id]

NoFile == [t |-> "missing"]
ConfigFile(email, api_token, project_key, start_date_field_id) ==
    [t |-> "file",
     jira |-> [base_url |-> Str(<<"https://jira.example", "/">>),
               email |-> email, api_token |-> api_token, project_key |-> project_key,
               issue_type |-> Str("Task"), start_date_field_id |-> start_date_field_id]]

GoodFile == ConfigFile(Str("bot@example.com"), Str("token"), Str("PRJ"), None)
GoodFileWithField == ConfigFile(Str("bot@example.com"), Str("token"), Str("PRJ"), Str("customfield_10015"))
FileWithoutEmail == ConfigFile(None, Str("token"), Str("PRJ"), None)
FileWithoutTokenAndProject == ConfigFile(Str("bot@example.com"), Str(""), None, None)

ConfigFiles == {NoFile, GoodFile, GoodFileWithField, FileWithoutEmail, FileWithoutTokenAndProject}

(* The configuration file is edited, created or removed (create_ticket is  *)
(* one step here, so an edit falls between two of them).                   *)
ConfigChange ==
    /\ tkForm = None
    /\ \E file \in ConfigFiles \ {config} : config' = file
    /\ UNCHANGED <<jiraClient, loads, adfVars, gwVars, tkVars, hVars>>

(* get_jira_client run without interruption: the cache and the count of    *)
(* loads after it.                                                         *)
GetJiraClient(cache, file, n) ==
    IF cache = Unset
    THEN [cache |-> NewJiraClient(file, n + 1), loads |-> n + 1]
    ELSE [cache |-> cache, loads |-> n]

(***************************************************************************)
(* create_ticket of app.py.                                                *)
(***************************************************************************)
TAB == "\t"
Whitespace == {" ", TAB, LF, "\r"}

RECURSIVE LStrip(_)
LStrip(s) == IF s # <<>> /\ s[1] \in Whitespace THEN LStrip(Tail(s)) ELSE s

RECURSIVE RStrip(_)
RStrip(s) ==
    IF s # <<>> /\ s[Len(s)] \in Whitespace THEN RStrip(SubSeq(s, 1, Len(s) - 1)) ELSE s

Strip(s) == LStrip(RStrip(s))

DigitValue ==
    ("0" :> 0) @@ ("1" :> 1) @@ ("2" :> 2) @@ ("3" :> 3) @@ ("4" :> 4) @@
    ("5" :> 5) @@ ("6" :> 6) @@ ("7" :> 7) @@ ("8" :> 8) @@ ("9" :> 9)
Digits == DOMAIN DigitValue
NonZero == Digits \ {"0"}

RECURSIVE Number(_)
Number(s) ==
    IF s = <<>> THEN 0
    ELSE 10 * Number(SubSeq(s, 1, Len(s) - 1))
         + (IF s[Len(s)] \in Digits THEN DigitValue[s[Len(s)]] ELSE 0)

IsLeap(year) == year % 4 = 0 /\ (year % 100 # 0 \/ year % 400 = 0)

DaysIn(year, month) ==
    IF month = 2 THEN (IF IsLeap(year) THEN 29 ELSE 28)
    ELSE IF month \in {4, 6, 9, 11} THEN 30
    ELSE 31

(* The directives of datetime.strptime as it reads them:                   *)
(* %m is 1[0-2]|0[1-9]|[1-9] and %d is 3[01]|[12]\d|0[1-9]|[1-9]| [1-9].   *)
MonthDirective(m) ==
    \/ Len(m) = 2 /\ m[1] = "1" /\ m[2] \in {"0", "1", "2"}
    \/ Len(m) = 2 /\ m[1] = "0" /\ m[2] \in NonZero
    \/ Len(m) = 1 /\ m[1] \in NonZero

DayDirective(d) ==
    \/ Len(d) = 2 /\ d[1] = "3" /\ d[2] \in {"0", "1"}
    \/ Len(d) = 2 /\ d[1] \in {"1", "2"} /\ d[2] \in Digits
    \/ Len(d) = 2 /\ d[1] = "0" /\ d[2] \in NonZero
    \/ Len(d) = 1 /\ d[1] \in NonZero
    \/ Len(d) = 2 /\ d[1] = " " /\ d[2] \in NonZero

(* datetime.strptime(value, "%Y-%m-%d") returns (TRUE) or raises           *)
(* ValueError (FALSE): the whole value matches \d\d\d\d-%m-%d and names a  *)
(* day of the calendar.                                                    *)
StrptimeAccepts(value) ==
    \E lm \in {1, 2}, ld \in {1, 2} :
        /\ Len(value) = 6 + lm + ld
        /\ \A i \in 1..4 : value[i] \in Digits
        /\ value[5] = "-"
        /\ MonthDirective(SubSeq(value, 6, 5 + lm))
        /\ value[6 + lm] = "-"
        /\ DayDirective(SubSeq(value, 7 + lm, 6 + lm + ld))
        /\ LET year == Number(SubSeq(value, 1, 4))
               month == Number(SubSeq(value, 6, 5 + lm))
               day == Number(SubSeq(value, 7 + lm, 6 + lm + ld))
           IN  year >= 1 /\ day <= DaysIn(year, month)

(* "\n".join(lines) on character sequences.                                *)
RECURSIVE JoinLines(_)
JoinLines(lines) ==
    IF lines = <<>> THEN <<>>
    ELSE IF Len(lines) = 1 THEN lines[1]
    ELSE lines[1] \o <<LF>> \o JoinLines(Tail(lines))

DetailsLabel == <<"D", "e", "t", "a", "i", "l", "s", ":">>
StartLabel == <<"S", "t", "a", "r", "t", " ", "D", "a", "t", "e", ":", " ">>
ExpectedLabel == <<"E", "x", "p", "e", "c", "t", "e", "d", " ", "B", "y", ":", " ">>

TicketDescription(details, start_date, due_date) ==
    JoinLines(<<DetailsLabel, details, <<>>, StartLabel \o start_date, ExpectedLabel \o due_date>>)

(* dict.get on a decoded JSON object.                                      *)
Get(object, key) ==
    LET hits == {i \in 1..Len(object.items) : object.items[i][1] = key}
    IN  IF hits = {} THEN None
        ELSE object.items[CHOOSE i \in hits : \A j \in hits : j <= i][2]

(* str() of the values the handler formats.                                *)
PyStr(x) ==
    CASE x.t = "str" -> x.v
      [] x.t = "none" -> "None"
      [] x.t = "int" /\ x.v = 400 -> "400"

(* str(exc) of the HTTPError that raise_for_status builds.                 *)
StatusText(status) ==
    CASE status = 400 -> "400 Client Error: Bad Request"
      [] status = 404 -> "404 Client Error: Not Found"
      [] status = 500 -> "500 Server Error: Internal Server Error"
      [] status = 502 -> "502 Server Error: Bad Gateway"

HttpErrorText(reply, url) == StatusText(reply.status) \o " for url: " \o url

FieldMessages(errors) ==
    [i \in 1..Len(errors.items) |-> errors.items[i][1] \o ": " \o PyStr(errors.items[i][2])]

Message(text) == [kind |-> "message", text |-> text]

(* The except branch of create_ticket for an HTTPError carrying reply: the *)
(* message, or the TypeError of "; ".join on a list with a non-string.     *)
ErrorMessage(reply, url) ==
    LET parsed == JsonLoads(reply.text)
        body == IF parsed = JsonError THEN None ELSE parsed
        errors == IF body.t = "dict"
                  THEN (IF Truthy(Get(body, "errorMessages"))
                        THEN Get(body, "errorMessages")
                        ELSE Get(body, "errors"))
                  ELSE None
    IN  IF errors.t = "list" /\ \A i \in 1..Len(errors.v) : errors.v[i].t = "str"
        THEN Message(Join([i \in 1..Len(errors.v) |-> errors.v[i].v], "; "))
        ELSE IF errors.t = "list" THEN [kind |-> "raise", exc |-> "TypeError"]
        ELSE IF errors.t = "dict" THEN Message(Join(FieldMessages(errors), "; "))
        ELSE IF Truthy(errors) THEN Message(PyStr(errors))
        ELSE Message(HttpErrorText(reply, url))

Flash(category, message) == [t |-> "flash", category |-> category, message |-> message]
Unhandled(exc) == [t |-> "unhandled", exc |-> exc]

(* create_ticket after client.create_issue has ended with result.          *)
AfterCreateIssue(ended, url) ==
    IF ended.kind = "raise" /\ ended.exc = "HTTPError"
    THEN LET message == ErrorMessage(ended.response, url)
         IN  IF message.kind = "raise" THEN Unhandled(message.exc)
             ELSE Flash("error", "Failed to create issue: " \o message.text)
    ELSE IF ended.kind = "raise" THEN Unhandled(ended.exc)
    ELSE IF ended.value.t # "dict" THEN Unhandled("AttributeError")
    ELSE Flash("success", "Successfully created Jira issue "
                          \o PyStr(Get(ended.value, "key")) \o ".")

MissingLabels(summary, details, start_date, due_date) ==
    (IF summary = <<>> THEN <<"Summary">> ELSE <<>>)
    \o (IF details = <<>> THEN <<"Details">> ELSE <<>>)
    \o (IF start_date = <<>> THEN <<"Start Date">> ELSE <<>>)
    \o (IF due_date = <<>> THEN <<"Expected By Date">> ELSE <<>>)

(* The whole handler on form, with the file as it is, the cache as it is   *)
(* and reply as the session's answer to a request, if one is sent.         *)
TicketRun(form, file, cache, n, reply) ==
    LET summary == Strip(form.summary)
        details == Strip(form.details)
        start_date == Strip(form.start_date)
        due_date == Strip(form.due_date)
        missing == MissingLabels(summary, details, start_date, due_date)
        got == GetJiraClient(cache, file, n)
        stopped(outcome) == [sent |-> <<>>, reply |-> None, outcome |-> outcome,
                             cache |-> cache, loads |-> n]
    IN  IF missing # <<>>
        THEN stopped(Flash("error", "Please fill in the mandatory fields: " \o Join(missing, ", ")))
        ELSE IF ~StrptimeAccepts(start_date)
        THEN stopped(Flash("error", "Start Date must be in YYYY-MM-DD format."))
        ELSE IF ~StrptimeAccepts(due_date)
        THEN stopped(Flash("error", "Expected By Date must be in YYYY-MM-DD format."))
        ELSE IF got.cache.t = "error"
        THEN [sent |-> <<>>, reply |-> None, outcome |-> Flash("error", got.cache.message),
              cache |-> got.cache, loads |-> got.loads]
        ELSE LET request == CreateIssueRequest(got.cache.settings, Str(summary),
                                Str(TicketDescription(details, start_date, due_date)),
                                Str(start_date), Str(due_date))
             IN  [sent |-> <<request>>, reply |-> reply,
                  outcome |-> AfterCreateIssue(JsonResult(reply), request.url),
                  cache |-> got.cache, loads |-> got.loads]

FormSummaries == {<<>>, <<" ">>, <<" ", "S", " ">>}
FormDetails == {<<>>, <<"d">>, <<"d", LF, "e", LF>>}
FormStartDates ==
    {<<>>, <<" ", TAB>>,
     <<"2", "0", "2", "4", "-", "0", "4", "-", "0", "1">>,
     <<" ", "2", "0", "2", "4", "-", "0", "4", "-", "0", "1", LF>>,
     <<"2", "0", "2", "4", "-", "4", "-", "1">>,
     <<"2", "0", "2", "4", "-", "0", "2", "-", "3", "0">>,
     <<"0", "1", "/", "0", "4", "/", "2", "0", "2", "4">>}
FormDueDates ==
    {<<>>,
     <<"2", "0", "2", "4", "-", "0", "5", "-", "0", "1">>,
     <<"2", "0", "2", "4", "-", "0", "5", "-", " ", "1">>,
     <<"2", "0", "2", "4", "-", "1", "3", "-", "0", "1">>,
     <<"t", "o", "m", "o", "r", "r", "o", "w">>}
Forms ==
    [summary : FormSummaries, details : FormDetails,
     start_date : FormStartDates, due_date : FormDueDates]

TicketReplies ==
    {Reply(201, "{\"key\":\"PRJ-1\"}"), Reply(201, "{}"), Reply(201, ""),
     Reply(200, "[\"not an object\"]"),
     Reply(400, "{\"errorMessages\":[\"summary is required\"]}"),
     Reply(400, "{\"errors\":{\"summary\":\"is required\"}}"),
     Reply(400, "{\"errorMessages\":[\"first\",\"second\"],\"errors\":{\"summary\":\"is required\"}}"),
     Reply(400, "{\"errorMessages\":[],\"errors\":{\"summary\":\"is required\",\"duedate\":\"is invalid\"}}"),
     Reply(400, "{\"errors\":[\"bad request\"]}"),
     Reply(400, "{\"errorMessages\":\"oops\"}"),
     Reply(400, "{\"errorMessages\":[400]}"),
     Reply(400, "{\"errorMessages\":[],\"errors\":{}}"),
     Reply(400, "{}"),
     Reply(400, "[\"not an object\"]"),
     Reply(404, ""),
     Reply(502, "<html>Bad Gateway</html>"),
     TimedOut}

InitTicket ==
    /\ config \in ConfigFiles
    /\ jiraClient = Unset
    /\ loads = 0
    /\ TkIdle
    /\ AdfIdle
    /\ GwIdle
    /\ HandlersIdle

create_ticket ==
    /\ tkForm = None
    /\ \E form \in Forms, reply \in TicketReplies :
           LET run == TicketRun(form, config, jiraClient, loads, reply)
           IN  /\ tkForm' = form
               /\ tkSent' = run.sent
               /\ tkReply' = run.reply
               /\ tkOutcome' = run.outcome
               /\ jiraClient' = run.cache
               /\ loads' = run.loads
               /\ UNCHANGED <<config, adfVars, gwVars, hVars>>

(* The redirect has been answered; the next form can be posted.            *)
TkRespond ==
    /\ tkForm # None
    /\ tkForm' = None
    /\ tkSent' = <<>>
    /\ tkReply' = None
    /\ tkOutcome' = None
    /\ UNCHANGED <<appVars, adfVars, gwVars, hVars>>

NextTicket == create_ticket \/ TkRespond \/ ConfigChange

SpecTicket == InitTicket /\ [][NextTicket]_vars

(***************************************************************************)
(* get_jira_client run by the request handlers of the threaded server:     *)
(* the hasattr test, the call of JiraClient(), the store into              *)
(* app._jira_client and the read of it are steps of their own.             *)
(***************************************************************************)
InitCache ==
    /\ config \in ConfigFiles
    /\ jiraClient = Unset
    /\ loads = 0
    /\ HandlersIdle
    /\ TkIdle
    /\ AdfIdle
    /\ GwIdle

(* A request arrives and its handler calls get_jira_client.                *)
Begin(h) ==
    /\ pc[h] = "idle"
    /\ begun < MaxCalls
    /\ begun' = begun + 1
    /\ pc' = [pc EXCEPT ![h] = "hasattr"]
    /\ later' = [later EXCEPT ![h] = first # None]
    /\ UNCHANGED <<made, result, first, appVars, adfVars, gwVars, tkVars>>

(* if not hasattr(app, "_jira_client")                                     *)
HasAttr(h) ==
    /\ pc[h] = "hasattr"
    /\ pc' = [pc EXCEPT ![h] = IF jiraClient = Unset THEN "construct" ELSE "read"]
    /\ UNCHANGED <<made, result, begun, first, later, appVars, adfVars, gwVars, tkVars>>

(* JiraClient(), which calls load_settings()                               *)
Construct(h) ==
    /\ pc[h] = "construct"
    /\ made' = [made EXCEPT ![h] = NewJiraClient(config, loads + 1)]
    /\ loads' = loads + 1
    /\ pc' = [pc EXCEPT ![h] = "store"]
    /\ UNCHANGED <<result, begun, first, later, config, jiraClient, adfVars, gwVars, tkVars>>

(* app._jira_client = <the client or the exception>                        *)
Store(h) ==
    /\ pc[h] = "store"
    /\ jiraClient' = made[h]
    /\ made' = [made EXCEPT ![h] = None]
    /\ pc' = [pc EXCEPT ![h] = "read"]
    /\ UNCHANGED <<result, begun, first, later, config, loads, adfVars, gwVars, tkVars>>

(* client = app._jira_client, then raise it or return it                   *)
Read(h) ==
    /\ pc[h] = "read"
    /\ result' = [result EXCEPT ![h] = jiraClient]
    /\ first' = IF first = None THEN jiraClient ELSE first
    /\ pc' = [pc EXCEPT ![h] = "done"]
    /\ UNCHANGED <<made, begun, later, appVars, adfVars, gwVars, tkVars>>

(* The handler answers its request and is free for the next one.           *)
Finish(h) ==
    /\ pc[h] = "done"
    /\ result' = [result EXCEPT ![h] = None]
    /\ later' = [later EXCEPT ![h] = FALSE]
    /\ pc' = [pc EXCEPT ![h] = "idle"]
    /\ UNCHANGED <<made, begun, first, appVars, adfVars, gwVars, tkVars>>

NextCache ==
    \/ \E h \in Handlers : Begin(h)
    \/ \E h \in Handlers : HasAttr(h)
    \/ \E h \in Handlers : Construct(h)
    \/ \E h \in Handlers : Store(h)
    \/ \E h \in Handlers : Read(h)
    \/ \E h \in Handlers : Finish(h)
    \/ ConfigChange

SpecCache == InitCache /\ [][NextCache]_vars

(***************************************************************************)
(* Converter calls.                                                        *)
(***************************************************************************)
AdfArgs == {None} \cup {Str(s) : s \in Texts} \cup {Dict([key |-> "value"])}

InitAdf ==
    /\ arg \in AdfArgs
    /\ ret = None
    /\ op = "none"
    /\ GwIdle
    /\ AppIdle
    /\ TkIdle
    /\ HandlersIdle

CallTextToAdf ==
    /\ op = "none"
    /\ arg.t = "str"
    /\ ret' = _text_to_adf(arg.v)
    /\ op' = "_text_to_adf"
    /\ UNCHANGED <<arg, gwVars, appVars, tkVars, hVars>>

CallEnsureAdf ==
    /\ op = "none"
    /\ ret' = _ensure_adf(arg)
    /\ op' = "_ensure_adf"
    /\ UNCHANGED <<arg, gwVars, appVars, tkVars, hVars>>

(* A returned document is handed to _ensure_adf again (create_issue and    *)
(* update_issue pass every description through it).                        *)
CallEnsureAdfAgain ==
    /\ op \in {"_text_to_adf", "_ensure_adf"}
    /\ arg' = ret
    /\ ret' = _ensure_adf(ret)
    /\ op' = "_ensure_adf again"
    /\ UNCHANGED <<gwVars, appVars, tkVars, hVars>>

NextAdf == CallTextToAdf \/ CallEnsureAdf \/ CallEnsureAdfAgain

SpecAdf == InitAdf /\ [][NextAdf]_vars

(***************************************************************************)
(* The reference conversion of the specification, stated on positions: a   *)
(* blank-line delimiter starts at an even offset into a run of newlines,   *)
(* with the next newline still in the run; a line break is every newline   *)
(* of a block.                                                             *)
(***************************************************************************)
RunBefore(s, i) == Cardinality({k \in 1..(i - 1) : \A m \in k..(i - 1) : s[m] = LF})

BlankLineStarts(s) ==
    {i \in 1..(Len(s) - 1) : s[i] = LF /\ s[i + 1] = LF /\ RunBefore(s, i) % 2 = 0}

NewlineAt(s) == {i \in 1..Len(s) : s[i] = LF}

Ascending(S) ==
    CHOOSE f \in [1..Cardinality(S) -> S] : \A i, j \in 1..Cardinality(S) : i < j => f[i] < f[j]

Pieces(s, cuts, width) ==
    LET c == Ascending(cuts)
        n == Cardinality(cuts)
    IN  [j \in 1..(n + 1) |->
            SubSeq(s, IF j = 1 THEN 1 ELSE c[j - 1] + width,
                      IF j = n + 1 THEN Len(s) ELSE c[j] - 1)]

RefBlocks(s) == Pieces(s, BlankLineStarts(s), 2)
RefLines(block) == Pieces(block, NewlineAt(block), 1)

RECURSIVE RefNodes(_, _)
RefNodes(lines, i) ==
    IF i > Len(lines) THEN <<>>
    ELSE (IF lines[i] = <<>> THEN <<>> ELSE <<TextNode(lines[i])>>)
         \o (IF i = Len(lines) THEN <<>> ELSE <<HardBreak>>)
         \o RefNodes(lines, i + 1)

Nodes(paragraph) == IF "content" \in DOMAIN paragraph THEN paragraph.content ELSE <<>>

NoNonEmptyLine(block) == \A i \in 1..Len(RefLines(block)) : RefLines(block)[i] = <<>>

(* C1: _text_to_adf(s) is a doc of version 1 with one paragraph per block  *)
(* of s split on the blank-line delimiter, in order, and each paragraph's  *)
(* nodes are one text node per non-empty line with a hardBreak after every *)
(* line but the last; "a\nb" gives [text a, hardBreak, text b] and         *)
(* "a\n\nb" gives two paragraphs of one text node each.                    *)
C1_TextToAdfIsReference ==
    op = "_text_to_adf" =>
        /\ ret.t = "dict"
        /\ DOMAIN ret.v = {"type", "version", "content"}
        /\ ret.v.type = "doc"
        /\ ret.v.version = 1
        /\ Len(ret.v.content) = Len(RefBlocks(arg.v))
        /\ \A i \in 1..Len(ret.v.content) :
              /\ ret.v.content[i].type = "paragraph"
              /\ Nodes(ret.v.content[i]) = RefNodes(RefLines(RefBlocks(arg.v)[i]), 1)
        /\ arg.v = <<"a", LF, "b">> =>
              ret.v.content = << [type |-> "paragraph",
                                  content |-> <<TextNode(<<"a">>), HardBreak, TextNode(<<"b">>)>>] >>
        /\ arg.v = <<"a", LF, LF, "b">> =>
              ret.v.content = << [type |-> "paragraph", content |-> <<TextNode(<<"a">>)>>],
                                 [type |-> "paragraph", content |-> <<TextNode(<<"b">>)>>] >>

C1_Witness ==
    /\ op = "_text_to_adf"
    /\ arg.v = <<"a", LF, LF, "b">>
    /\ Len(ret.v.content) = 2

(* C2 as claimed: every paragraph of _text_to_adf(s) that comes from a     *)
(* block with no non-empty line has no content key.                        *)
C2_AsClaimed ==
    op = "_text_to_adf" =>
        \A i \in 1..Len(ret.v.content) :
            NoNonEmptyLine(RefBlocks(arg.v)[i]) => "content" \notin DOMAIN ret.v.content[i]

(* C2 amended: a paragraph of _text_to_adf(s) has no content key exactly   *)
(* when its block is empty (so the empty string gives one paragraph with   *)
(* no content key); a non-empty block with no non-empty line, the single   *)
(* newline, gives a paragraph whose content is one hardBreak.              *)
C2_EmptyBlockHasNoContentKey ==
    op = "_text_to_adf" =>
        /\ \A i \in 1..Len(ret.v.content) :
              LET block == RefBlocks(arg.v)[i]
                  paragraph == ret.v.content[i]
              IN  /\ "content" \notin DOMAIN paragraph <=> block = <<>>
                  /\ (NoNonEmptyLine(block) /\ block # <<>>) =>
                        /\ block = <<LF>>
                        /\ paragraph = [type |-> "paragraph", content |-> <<HardBreak>>]
        /\ arg.v = <<>> => ret.v.content = << [type |-> "paragraph"] >>

C2_Witness ==
    /\ op = "_text_to_adf"
    /\ arg.v = <<LF, LF, LF>>
    /\ ret.v.content = << [type |-> "paragraph"],
                          [type |-> "paragraph", content |-> <<HardBreak>>] >>

(***************************************************************************)
(* Claims about JiraClient (checked under SpecGateway).                    *)
(***************************************************************************)
Present(x) == x.t = "str" /\ x.v # <<>>

CustomFieldId(id) == id.t = "str" /\ id.v # "" /\ id.v \notin StandardFields

SentFields == gwSent.json.fields

DocOfAB ==
    Dict([type |-> "doc", version |-> 1,
          content |-> << [type |-> "paragraph",
                          content |-> <<TextNode(<<"a">>), HardBreak, TextNode(<<"b">>)>>] >>])

(* C3: with a custom start-date field id configured, create_issue sends a  *)
(* fields object with the project key, the summary and the issue type,     *)
(* with duedate set to dueDate exactly when dueDate is non-empty, with the *)
(* custom field set to startDate exactly when startDate is non-empty, and  *)
(* with the description being the ensure-document result of the given      *)
(* description whatever the dates are.                                     *)
C3_CreateIssueFields ==
    (gwCall.op = "create_issue" /\ CustomFieldId(gwSettings.start_date_field_id)) =>
        LET id == gwSettings.start_date_field_id.v
        IN  /\ gwSent.method = "POST"
            /\ DOMAIN SentFields \subseteq StandardFields \cup {id}
            /\ SentFields["project"] = Dict([key |-> gwSettings.project_key])
            /\ SentFields["summary"] = gwCall.summary
            /\ SentFields["issuetype"] = Dict([name |-> gwSettings.issue_type])
            /\ "duedate" \in DOMAIN SentFields <=> Present(gwCall.due_date)
            /\ Present(gwCall.due_date) => SentFields["duedate"] = gwCall.due_date
            /\ id \in DOMAIN SentFields <=> Present(gwCall.start_date)
            /\ Present(gwCall.start_date) => SentFields[id] = gwCall.start_date
            /\ SentFields["description"] = _ensure_adf(gwCall.description)
            /\ gwCall.description = Str(<<"a", LF, "b">>) => SentFields["description"] = DocOfAB

C3_Witness ==
    /\ gwCall.op = "create_issue"
    /\ gwSettings.start_date_field_id = Str("customfield_10015")
    /\ Present(gwCall.start_date)
    /\ Present(gwCall.due_date)
    /\ gwCall.description = Str(<<"a", LF, "b">>)
    /\ SentFields["customfield_10015"] = gwCall.start_date
    /\ SentFields["duedate"] = gwCall.due_date

StartDateLabel == <<"S", "t", "a", "r", "t", " ", "D", "a", "t", "e", ":", " ">>

NoFieldIdAndStartDate ==
    /\ gwCall.op = "create_issue"
    /\ Present(gwCall.start_date)
    /\ ~Truthy(gwSettings.start_date_field_id)

(* C4 as claimed: with a non-empty startDate and no custom field id, the   *)
(* description that is sent begins with the line "Start Date: {value}".    *)
C4_AsClaimed ==
    (NoFieldIdAndStartDate /\ gwCall.description.t = "str") =>
        LET doc == SentFields["description"].v
        IN  /\ Len(doc.content) >= 1
            /\ Nodes(doc.content[1]) # <<>>
            /\ Nodes(doc.content[1])[1] = TextNode(StartDateLabel \o gwCall.start_date.v)

(* C4 amended: with a non-empty startDate and no custom field id, the      *)
(* start date is dropped: the fields sent are the project, the summary,    *)
(* the issue type, the description and (for a non-empty dueDate) duedate,  *)
(* and the description is the ensure-document result of the description    *)
(* given, with nothing put before it.                                      *)
C4_StartDateDropped ==
    NoFieldIdAndStartDate =>
        /\ DOMAIN SentFields = {"project", "summary", "issuetype", "description"}
                               \cup (IF Present(gwCall.due_date) THEN {"duedate"} ELSE {})
        /\ \A k \in DOMAIN SentFields : SentFields[k] # gwCall.start_date
        /\ SentFields["description"] = _ensure_adf(gwCall.description)
        /\ gwCall.description = Str(<<"a", LF, "b">>) => SentFields["description"] = DocOfAB

C4_Witness ==
    /\ NoFieldIdAndStartDate
    /\ gwSettings.start_date_field_id = None
    /\ gwCall.description = Str(<<"a", LF, "b">>)
    /\ SentFields["description"] = DocOfAB

SuccessReply == gwReply.t = "response" /\ gwReply.status >= 200 /\ gwReply.status < 300

(* C7 as claimed: on a success status update_issue returns the marker for  *)
(* an empty body without parsing it, and returns the parsed JSON body for  *)
(* every non-empty body.                                                   *)
C7_AsClaimed ==
    (gwCall.op = "update_issue" /\ SuccessReply) =>
        IF gwReply.text = ""
        THEN gwResult = Return(SuccessMarker, 0)
        ELSE gwResult.kind = "return" /\ gwResult.value = JsonLoads(gwReply.text)

(* C7 amended: on a success status update_issue returns the marker         *)
(* {"status": "success"} for an empty body, without parsing it; for a      *)
(* non-empty body it parses the body once and returns the parsed JSON when *)
(* the body is JSON, and raises the parse error when it is not.            *)
C7_UpdateIssueResult ==
    (gwCall.op = "update_issue" /\ SuccessReply) =>
        IF gwReply.text = ""
        THEN gwResult = [kind |-> "return", value |-> Dict([status |-> "success"]), json_calls |-> 0]
        ELSE /\ gwResult.json_calls = 1
             /\ IF JsonLoads(gwReply.text) = JsonError
                THEN gwResult.kind = "raise" /\ gwResult.exc = "JSONDecodeError"
                ELSE gwResult.kind = "return" /\ gwResult.value = JsonLoads(gwReply.text)

C7_Witness ==
    /\ gwCall.op = "update_issue"
    /\ gwReply = Reply(204, "")
    /\ gwResult.kind = "return"
    /\ gwResult.value = SuccessMarker

(* C8: _ensure_adf returns a dict it is given unchanged, and applying it   *)
(* to its own result (for a str, None or dict argument) changes nothing.   *)
C8_EnsureAdfIdempotent ==
    /\ (op = "_ensure_adf" /\ arg.t = "dict") => ret = arg
    /\ op = "_ensure_adf again" => (ret = arg /\ ret.t = "dict")

C8_Witness ==
    /\ op = "_ensure_adf again"
    /\ ret = arg
    /\ Len(ret.v.content) = 2

(***************************************************************************)
(* Claims about create_ticket (checked under SpecTicket).                  *)
(***************************************************************************)
FailedWithHttpError ==
    /\ tkForm # None
    /\ tkSent # <<>>
    /\ tkReply.t = "response"
    /\ tkReply.status >= 400

(* The value of key in the body when the body is a JSON object, else None. *)
BodyValue(key) ==
    LET body == JsonLoads(tkReply.text)
    IN  IF body # JsonError /\ body.t = "dict" THEN Get(body, key) ELSE None

NoErrorsInBody == ~Truthy(BodyValue("errorMessages")) /\ ~Truthy(BodyValue("errors"))

(* C5, its last case: when the create request fails with an HTTP error and *)
(* the body holds neither a non-empty errorMessages nor a non-empty errors *)
(* (a body that is not JSON, not an object or absent included), the        *)
(* message shown is the raw HTTP status text of the error.                 *)
C5_AsClaimed ==
    (FailedWithHttpError /\ NoErrorsInBody) =>
        tkOutcome = Flash("error", "Failed to create issue: "
                                   \o HttpErrorText(tkReply, tkSent[1].url))

(* A date in the form YYYY-MM-DD: four, two and two digits that name a day *)
(* of the calendar.                                                        *)
IsoDate(value) ==
    /\ Len(value) = 10
    /\ \A i \in {1, 2, 3, 4, 6, 7, 9, 10} : value[i] \in Digits
    /\ value[5] = "-" /\ value[8] = "-"
    /\ Number(SubSeq(value, 6, 7)) \in 1..12
    /\ Number(SubSeq(value, 9, 10)) \in
          1..DaysIn(Number(SubSeq(value, 1, 4)), Number(SubSeq(value, 6, 7)))

(* C9: create_ticket sends no request when summary, details, start date or *)
(* due date is empty after trimming, when a date is not a valid YYYY-MM-DD *)
(* date or when get_jira_client raises the configuration error; otherwise  *)
(* it sends exactly one POST to the issue-creation endpoint.               *)
C9_AsClaimed ==
    tkForm # None =>
        IF \/ Strip(tkForm.summary) = <<>>
           \/ Strip(tkForm.details) = <<>>
           \/ Strip(tkForm.start_date) = <<>>
           \/ Strip(tkForm.due_date) = <<>>
           \/ ~IsoDate(Strip(tkForm.start_date))
           \/ ~IsoDate(Strip(tkForm.due_date))
           \/ jiraClient.t = "error"
        THEN tkSent = <<>>
        ELSE /\ Len(tkSent) = 1
             /\ tkSent[1].method = "POST"
             /\ tkSent[1].url = "https://jira.example/rest/api/3/issue"

(***************************************************************************)
(* Claims about get_jira_client (checked under SpecCache).                 *)
(***************************************************************************)
(* What a cached value is, apart from which object it is.                  *)
Content(x) ==
    IF x.t = "error" THEN [t |-> "error", message |-> x.message]
    ELSE IF x.t = "client" THEN [t |-> "client", settings |-> x.settings]
    ELSE [t |-> x.t]

(* C6: a call of get_jira_client that begins after the first call has      *)
(* ended does not load the settings and ends as the first call did: it     *)
(* raises the same configuration error or returns the same client.         *)
C6_AsClaimed ==
    \A h \in Handlers :
        later[h] =>
            /\ pc[h] \notin {"construct", "store"}
            /\ pc[h] = "done" => Content(result[h]) = Content(first)

(* C10: however the handlers interleave, load_settings runs at most once   *)
(* and all handlers observe the same cached client or error.               *)
C10_AsClaimed ==
    /\ loads <= 1
    /\ \A g, h \in Handlers :
          (pc[g] = "done" /\ pc[h] = "done") => Content(result[g]) = Content(result[h])

=============================================================================
